---- MODULE Spec2Model ----
(***************************************************************************)
(* Interrupt-driven preemptive scheduling core of the kernel: the run      *)
(* queue and schedule() of kernel/nano_core/src/task/scheduler.rs, the     *)
(* timer handlers and eoi() of kernel/nano_core/src/interrupts/mod.rs and  *)
(* src/interrupts/mod.rs, and the PIT tick accounting of                   *)
(* src/interrupts/pit_clock.rs.                                            *)
(***************************************************************************)
EXTENDS Integers, Sequences, FiniteSets, TLC

(* ---------------- bounds of the model ---------------- *)
NumTasks == 3
MaxQueue == 3
MaxApicTicks == 3
NumCores == 2
MaxPitRun == 1000
MaxSpurious == 2
MaxAddr == 2
MaxLiveRun == 12

Tasks == 1..NumTasks
NoTask == 0
Cores == 0..(NumCores - 1)

\* stack tops handed to init, init_ap and tss_set_rsp0
Addrs == 1..MaxAddr

(* ---------------- program constants ---------------- *)
PIT_FREQUENCY_HZ == 100
timeslice_period_ms == 100
heartbeat_period_ms == 10000

VARIABLES
    RUNQUEUE,          \* VecDeque<TaskRef>, front first
    runnable,          \* Task::is_runnable() of every task
    current,           \* the task get_tasklist().get_current() designates
    interrupts,        \* per core: the interrupt-enable flag
    halted,            \* cores stopped by a panic
    last               \* what the most recent operation did

schedvars_nolast == <<RUNQUEUE, runnable, current, interrupts, halted>>

schedvars == <<schedvars_nolast, last>>

Range(q) == {q[i] : i \in 1..Len(q)}

(* ---------------- scheduler.rs ---------------- *)

\* VecDeque::remove(index): drops the element at a 1-based position
VecDeque_remove(q, i) == SubSeq(q, 1, i - 1) \o SubSeq(q, i + 1, Len(q))

\* VecDeque::push_back
VecDeque_push_back(q, t) == Append(q, t)

\* the for loop of select_next_task: first index whose task is runnable, 0 if none
RECURSIVE scan_runnable(_, _, _)
scan_runnable(q, rn, i) ==
    IF i > Len(q) THEN 0
    ELSE IF rn[q[i]] THEN i
    ELSE scan_runnable(q, rn, i + 1)

index_chosen(q, rn) == scan_runnable(q, rn, 1)

\* a plausible slip: the chosen entry is put back at the front
select_next_task_pushfront(q, rn) ==
    LET index == index_chosen(q, rn) IN
    IF index # 0
    THEN [queue |-> <<q[index]>> \o VecDeque_remove(q, index), chosen |-> q[index]]
    ELSE [queue |-> q, chosen |-> NoTask]

\* a plausible slip: the chosen entry is cloned to the back but never removed
select_next_task_noremove(q, rn) ==
    LET index == index_chosen(q, rn) IN
    IF index # 0
    THEN [queue |-> VecDeque_push_back(q, q[index]), chosen |-> q[index]]
    ELSE [queue |-> q, chosen |-> NoTask]

select_next_task(q, rn) ==
    LET index == index_chosen(q, rn) IN
    IF index # 0
    THEN [queue |-> VecDeque_push_back(VecDeque_remove(q, index), q[index]),
          chosen |-> q[index]]
    ELSE [queue |-> q, chosen |-> NoTask]

\* Task::context_switch(next): afterwards next is the running task
context_switch(curr, next) == next

\* a plausible slip: the identity check is dropped, the task switches to itself
schedule_noidentity(q, rn, curr) ==
    LET sel == select_next_task(q, rn) IN
    IF sel.chosen = NoTask
    THEN [queue |-> sel.queue, ret |-> "false", switches |-> 0,
          current |-> curr, selected |-> NoTask]
    ELSE [queue |-> sel.queue, ret |-> "true", switches |-> 1,
          current |-> context_switch(curr, sel.chosen), selected |-> sel.chosen]

\* a plausible slip: the rotation is applied before the runnable test decides
schedule_rotatealways(q, rn, curr) ==
    LET sel == select_next_task(q, rn) IN
    IF sel.chosen = NoTask
    THEN [queue |-> IF Len(q) > 0 THEN Append(Tail(q), Head(q)) ELSE q,
          ret |-> "false", switches |-> 0,
          current |-> curr, selected |-> NoTask]
    ELSE IF curr = sel.chosen
    THEN [queue |-> sel.queue, ret |-> "false", switches |-> 0,
          current |-> curr, selected |-> sel.chosen]
    ELSE [queue |-> sel.queue, ret |-> "true", switches |-> 1,
          current |-> context_switch(curr, sel.chosen), selected |-> sel.chosen]

\* the body of schedule() past its assertion
schedule(q, rn, curr) ==
    LET sel == select_next_task(q, rn) IN
    IF sel.chosen = NoTask
    THEN [queue |-> sel.queue, ret |-> "false", switches |-> 0,
          current |-> curr, selected |-> NoTask]
    ELSE IF curr = sel.chosen
    THEN [queue |-> sel.queue, ret |-> "false", switches |-> 0,
          current |-> curr, selected |-> sel.chosen]
    ELSE [queue |-> sel.queue, ret |-> "true", switches |-> 1,
          current |-> context_switch(curr, sel.chosen), selected |-> sel.chosen]

\* VecDeque::retain(f) with f = |x| Arc::ptr_eq(&x, &task)
remove_task_from_runqueue(q, task) == SelectSeq(q, LAMBDA x : x = task)

\* a plausible slip: the handle is pushed at the front
add_task_to_runqueue_front(q, task) == <<task>> \o q

add_task_to_runqueue(q, task) == VecDeque_push_back(q, task)

\* a plausible slip: the flag is saved but interrupts are left as they were
hold_interrupts_nocli(flag) == [saved |-> flag, flag |-> flag]

\* irq_safety::hold_interrupts(): the guard remembers the interrupt flag and
\* interrupts are disabled
hold_interrupts(flag) == [saved |-> flag, flag |-> FALSE]

\* a plausible slip: the guard never re-enables
drop_held_interrupts_never(saved, flag) == flag

\* the end of the scope of a HeldInterrupts guard: interrupts are re-enabled iff
\* they were enabled when the guard was made
drop_held_interrupts(saved, flag) == IF saved THEN TRUE ELSE flag

\* the guards of a core dropped one after the other, innermost first
RECURSIVE drop_all(_, _)
drop_all(guards, flag) ==
    IF guards = <<>> THEN flag
    ELSE drop_all(SubSeq(guards, 1, Len(guards) - 1),
                  drop_held_interrupts(guards[Len(guards)], flag))

\* a plausible slip: RUNQUEUE declared as a plain spin::RwLock
RwLockIrqSafe_write_spin(flag) == [saved |-> flag, flag |-> flag]

\* RwLockIrqSafe::write(): the write guard holds interrupts for as long as it lives
RwLockIrqSafe_write(flag) == hold_interrupts(flag)

\* a plausible slip: the RUNQUEUE guard is bound to a variable of the function
\* and lives to its end
schedule_guards_kept(point) ==
    CASE point = "select" -> {"RUNQUEUE"}
      [] point = "tasklist" -> {"RUNQUEUE", "TASKLIST"}
      [] point = "switch" -> {"RUNQUEUE"}
      [] OTHER -> {}

\* the lock guards alive at each point of schedule(): the RUNQUEUE write guard
\* inside the if let of select_next_task, the task list read guard inside the
\* block that looks up the current task, none at the context switch; the
\* write guards on the two tasks are temporaries of single statements
schedule_guards(point) ==
    CASE point = "select" -> {"RUNQUEUE"}
      [] point = "tasklist" -> {"TASKLIST"}
      [] point = "switch" -> {}
      [] OTHER -> {}

(* ---------------- pit_clock.rs ---------------- *)

Ev(e, a) == [ev |-> e, arg |-> a]

\* schedule!() skipped: nothing selected, nothing switched
NotScheduled(q, curr) ==
    [queue |-> q, ret |-> "unit", switches |-> 0, current |-> curr, selected |-> NoTask]

\* the timeslice length in ticks, as the handler computes it
timeslice_ticks == (timeslice_period_ms * PIT_FREQUENCY_HZ) \div 1000

heartbeat_ticks == (heartbeat_period_ms * PIT_FREQUENCY_HZ) \div 1000

\* a plausible slip: the timeslice test compares before the increment
handle_timer_interrupt_preinc(ticks, q, rn, curr) ==
    LET t == ticks + 1
        sched == (ticks % timeslice_ticks) = 0
        beat == (t % heartbeat_ticks) = 0
        r == IF sched THEN schedule(q, rn, curr) ELSE NotScheduled(q, curr)
    IN  [ticks |-> t, sched |-> sched, r |-> r,
         log |-> <<Ev("tick", t)>>
                 \o (IF sched THEN <<Ev("schedule", 0)>> ELSE <<>>)
                 \o (IF beat THEN <<Ev("heartbeat", t)>> ELSE <<>>)]

\* handle_timer_interrupt(): TICKS += 1, the timeslice test, the heartbeat test
handle_timer_interrupt(ticks, q, rn, curr) ==
    LET t == ticks + 1
        sched == (t % timeslice_ticks) = 0
        beat == (t % heartbeat_ticks) = 0
        r == IF sched THEN schedule(q, rn, curr) ELSE NotScheduled(q, curr)
    IN  [ticks |-> t, sched |-> sched, r |-> r,
         log |-> <<Ev("tick", t)>>
                 \o (IF sched THEN <<Ev("schedule", 0)>> ELSE <<>>)
                 \o (IF beat THEN <<Ev("heartbeat", t)>> ELSE <<>>)]

\* pit_clock::handle_timer_interrupt() of nano_core, whose pit_clock.rs is not
\* among the sources: the tick handler as section 4.4 of the specification
\* describes it (increment, timeslice test, heartbeat test)
nano_core_handle_timer_interrupt(ticks, q, rn, curr) ==
    LET t == ticks + 1
        sched == (t % timeslice_ticks) = 0
        beat == (t % heartbeat_ticks) = 0
        r == IF sched THEN schedule(q, rn, curr) ELSE NotScheduled(q, curr)
    IN  [ticks |-> t, sched |-> sched, r |-> r,
         log |-> <<Ev("tick", t)>>
                 \o (IF sched THEN <<Ev("schedule", 0)>> ELSE <<>>)
                 \o (IF beat THEN <<Ev("heartbeat", t)>> ELSE <<>>)]

(* ---------------- interrupts/mod.rs ---------------- *)

Vectors == 0..255
NoIrq == -1

APIC_SPURIOUS_INTERRUPT_VECTOR == 255
TLB_SHOOTDOWN_IPI_IRQ == 64

\* a plausible slip: the APIC branches write the IRQ number they were given
eoi_irqvalue(chip, pic, irq) ==
    CASE chip = "APIC" -> Ev("eoi_apic", IF irq = NoIrq THEN 0 ELSE irq)
      [] chip = "x2apic" -> Ev("eoi_x2apic", IF irq = NoIrq THEN 0 ELSE irq)
      [] OTHER -> IF ~pic.init \/ irq = NoIrq
                  THEN Ev("panic", irq)
                  ELSE Ev("eoi_pic", irq)

\* eoi(irq): what the controller sees, or the panic of an expect()
eoi(chip, pic, irq) ==
    CASE chip = "APIC" -> Ev("eoi_apic", 0)
      [] chip = "x2apic" -> Ev("eoi_x2apic", 0)
      [] OTHER -> IF ~pic.init \/ irq = NoIrq
                  THEN Ev("panic", irq)
                  ELSE Ev("eoi_pic", irq)

DOUBLE_FAULT_IST_INDEX == 0

\* an IDT entry whose handler runs on the stack that was current
NoStackIndex == -1

\* the stack index of the IDT entry of handler h: set_stack_index is called on
\* the double fault entry only
idt_stack_index(h) ==
    IF h = "double_fault_handler" THEN DOUBLE_FAULT_IST_INDEX ELSE NoStackIndex

\* the exception entries both init() and the lazy IDT set
ExceptionHandler(v) ==
    CASE v = 0 -> "divide_by_zero_handler"
      [] v = 3 -> "breakpoint_handler"
      [] v = 6 -> "invalid_opcode_handler"
      [] v = 7 -> "device_not_available_handler"
      [] v = 8 -> "double_fault_handler"
      [] v = 11 -> "segment_not_present_handler"
      [] v = 13 -> "general_protection_fault_handler"
      [] v = 14 -> "page_fault_handler"
      [] OTHER -> "missing"

\* Idt::new() followed by the assignments of init()
idt_after_init(idt) ==
    [v \in Vectors |->
        IF v \in 32..254 THEN "apic_unimplemented_interrupt_handler"
        ELSE IF ExceptionHandler(v) # "missing" THEN ExceptionHandler(v)
        ELSE idt[v]]

\* the lazy_static IDT of src/interrupts/mod.rs
src_IDT ==
    [v \in Vectors |->
        CASE v = 32 -> "timer_handler"
          [] v = 33 -> "keyboard_handler"
          [] v = 39 -> "spurious_interrupt_handler"
          [] v = 40 -> "rtc_handler"
          [] v = 46 -> "primary_ata"
          [] v \in 32..254 -> "unimplemented_interrupt_handler"
          [] OTHER -> ExceptionHandler(v)]

idt_after_init_handlers_apic(idt) ==
    [v \in Vectors |->
        CASE v = TLB_SHOOTDOWN_IPI_IRQ -> "ipi_handler"
          [] v = APIC_SPURIOUS_INTERRUPT_VECTOR -> "apic_spurious_interrupt_handler"
          [] v = 33 -> "ioapic_keyboard_handler"
          [] v = 32 -> "apic_timer_handler"
          [] v \in 32..254 -> "apic_unimplemented_interrupt_handler"
          [] OTHER -> idt[v]]

idt_after_init_handlers_pic(idt) ==
    [v \in Vectors |->
        CASE v = 32 -> "timer_handler"
          [] v = 33 -> "keyboard_handler"
          [] v \in 34..38 -> "irq_handler_loop"
          [] v = 39 -> "spurious_interrupt_handler"
          [] v = 40 -> "rtc_handler"
          [] v \in 41..45 -> "irq_handler_loop"
          [] v = 46 -> "primary_ata"
          [] OTHER -> idt[v]]

\* Once::call_once: only the first initialisation takes effect
call_once(pic, master, slave) ==
    IF ~pic.init THEN [init |-> TRUE, master_mask |-> master, slave_mask |-> slave] ELSE pic

VARIABLES
    build,             \* which source tree is running: "nano_core" or "src"
    TICKS,             \* pit_clock::TICKS
    APIC_TIMER_TICKS,  \* interrupts::APIC_TIMER_TICKS
    apic_reg,          \* per core: the value apic_timer_handler loaded, -1 when idle
    deliveries,        \* timer vector deliveries so far, per counter
    pit_schedules,     \* schedule!() invocations made by handle_timer_interrupt
    INTERRUPT_CHIP,    \* "APIC", "x2apic" or "PIC"
    PIC,               \* the Once<ChainedPics>: initialised or not, and its masks
    IDT,               \* vector -> handler
    idt_loaded         \* cores that executed IDT.load()

irqvars == <<build, TICKS, APIC_TIMER_TICKS, apic_reg, deliveries, pit_schedules,
             INTERRUPT_CHIP, PIC, IDT, idt_loaded>>

VARIABLES
    SPURIOUS_COUNT,    \* interrupts::SPURIOUS_COUNT
    TSS,               \* AtomicMap<u8, TaskStateSegment>: per core, its entry if present
    GDT,               \* AtomicMap<u8, Gdt>: per core, the descriptors of its table in order
    SELECTORS,         \* the Once<SegmentSelector> statics: per role, the index recorded
    pc,                \* per core: its position inside a run queue operation
    held,              \* per core: the locks whose guards it holds
    held_ints,         \* per core: the live HeldInterrupts guards, innermost last
    next_task,         \* per core: the task schedule() selected
    in_service,        \* cores whose timer interrupt is delivered and not acknowledged
    suspended,         \* tasks switched away from inside timer_handler, before its eoi
    create_frame,      \* per core: the arguments and locals of its create_tss_gdt
    timer_frames,      \* per task: ticks of its frame of handle_timer_interrupt that
                       \* schedule() switched away from, 0 if it has none
    running            \* per core: the task the core last switched to

tssvars == <<TSS, GDT, SELECTORS>>

lockvars == <<pc, held, held_ints, next_task>>

stepvars == <<in_service, suspended, create_frame, timer_frames, running>>

extvars == <<SPURIOUS_COUNT, tssvars, lockvars, stepvars>>

vars == <<schedvars, irqvars, extvars>>

Op(op, arg, r, log) ==
    [op |-> op, arg |-> arg, ret |-> r.ret,
     selected |-> r.selected, switches |-> r.switches, log |-> log]

NoResult == [ret |-> "unit", selected |-> NoTask, switches |-> 0]

Idle(c) == c \notin halted /\ apic_reg[c] = -1 /\ pc[c] = "idle"

\* a core that create_tss_gdt() has not reached has no entry in TSS
NoTss == [present |-> FALSE, rsp0 |-> 0, ist0 |-> 0]

\* a core that has not called create_tss_gdt: no arguments, nothing read
NoFrame == [df |-> 0, ps |-> 0, seen |-> <<>>, done |-> FALSE]

\* None of apic::get_my_apic_id()
NoApicId == -1

\* apic::get_my_apic_id() on core c: Some(c), or None when the local APIC does
\* not yield an id
get_my_apic_id(c, known) == IF known THEN c ELSE NoApicId

\* a plausible slip: the user segments are added before the kernel data segment
gdt_entries_reordered ==
    <<"null", "kernel_code_segment", "user_code_32_segment", "user_data_32_segment",
      "kernel_data_segment", "user_code_64_segment", "user_data_64_segment",
      "tss_segment">>

\* Gdt::new() and the add_entry calls of create_tss_gdt, in their order
gdt_entries ==
    <<"null", "kernel_code_segment", "kernel_data_segment", "user_code_32_segment",
      "user_data_32_segment", "user_code_64_segment", "user_data_64_segment",
      "tss_segment">>

\* the roles that have a static selector: every entry but the null descriptor
SelectorRoles ==
    {"kernel_code_segment", "kernel_data_segment", "user_code_32_segment",
     "user_data_32_segment", "user_code_64_segment", "user_data_64_segment",
     "tss_segment"}

\* a Once<SegmentSelector> that was never set
NoSelector == -1

\* the index of the selector Gdt::add_entry returned for a descriptor: its place
\* in the table, the null descriptor being entry 0
selector_index(gdt, role) == (CHOOSE i \in 1..Len(gdt) : gdt[i] = role) - 1

\* the X_SELECTOR.call_once(|| selector) calls of one construction of a GDT:
\* a static that is already set keeps its value
record_selectors(sel, gdt) ==
    [r \in SelectorRoles |->
        IF sel[r] = NoSelector THEN selector_index(gdt, r) ELSE sel[r]]

\* a plausible slip: every core registers its state under the id of the boot core
create_tss_gdt_bsp(tss, gdt, apic_id, df, ps) ==
    [TSS |-> [tss EXCEPT ![0] = [present |-> TRUE, rsp0 |-> ps, ist0 |-> df]],
     GDT |-> [gdt EXCEPT ![0] = gdt_entries]]

\* create_tss_gdt(apic_id, double_fault_stack_top, privilege_stack_top)
create_tss_gdt(tss, gdt, apic_id, df, ps) ==
    [TSS |-> [tss EXCEPT ![apic_id] = [present |-> TRUE, rsp0 |-> ps, ist0 |-> df]],
     GDT |-> [gdt EXCEPT ![apic_id] = gdt_entries]]

\* a plausible slip: the entry of the boot core is looked up, not the caller's
tss_set_rsp0_bsp(tss, my_apic_id, new_top) ==
    IF my_apic_id = NoApicId
    THEN [ret |-> "Err(couldn't get_my_apic_id)", TSS |-> tss]
    ELSE IF ~tss[0].present
    THEN [ret |-> "Err(No TSS for the current core's apid id)", TSS |-> tss]
    ELSE [ret |-> "Ok", TSS |-> [tss EXCEPT ![0].rsp0 = new_top]]

\* a plausible slip: a fresh TaskStateSegment with the new stack top replaces the entry
tss_set_rsp0_fresh(tss, my_apic_id, new_top) ==
    IF my_apic_id = NoApicId
    THEN [ret |-> "Err(couldn't get_my_apic_id)", TSS |-> tss]
    ELSE IF ~tss[my_apic_id].present
    THEN [ret |-> "Err(No TSS for the current core's apid id)", TSS |-> tss]
    ELSE [ret |-> "Ok",
          TSS |-> [tss EXCEPT ![my_apic_id] = [present |-> TRUE, rsp0 |-> new_top, ist0 |-> 0]]]

\* tss_set_rsp0(new_privilege_stack_top), my_apic_id being what get_my_apic_id gave
tss_set_rsp0(tss, my_apic_id, new_top) ==
    IF my_apic_id = NoApicId
    THEN [ret |-> "Err(couldn't get_my_apic_id)", TSS |-> tss]
    ELSE IF ~tss[my_apic_id].present
    THEN [ret |-> "Err(No TSS for the current core's apid id)", TSS |-> tss]
    ELSE [ret |-> "Ok", TSS |-> [tss EXCEPT ![my_apic_id].rsp0 = new_top]]

Init ==
    /\ RUNQUEUE = <<>>
    /\ runnable = [t \in Tasks |-> TRUE]
    /\ current = 1
    /\ interrupts = [c \in Cores |-> FALSE]
    /\ halted = {}
    /\ last = Op("boot", NoTask, NoResult, <<>>)
    /\ build \in {"nano_core", "src"}
    /\ TICKS = 0
    /\ APIC_TIMER_TICKS = 0
    /\ apic_reg = [c \in Cores |-> -1]
    /\ deliveries = [pit |-> 0, apic |-> 0]
    /\ pit_schedules = 0
    /\ INTERRUPT_CHIP = IF build = "nano_core" THEN "APIC" ELSE "PIC"
    /\ PIC = [init |-> FALSE, master_mask |-> 0, slave_mask |-> 0]
    /\ IDT = IF build = "nano_core" THEN [v \in Vectors |-> "missing"] ELSE src_IDT
    /\ idt_loaded = {}
    /\ SPURIOUS_COUNT = 0
    /\ TSS = [c \in Cores |-> NoTss]
    /\ GDT = [c \in Cores |-> <<>>]
    /\ SELECTORS = [r \in SelectorRoles |-> NoSelector]
    /\ pc = [c \in Cores |-> "idle"]
    /\ held = [c \in Cores |-> {}]
    /\ held_ints = [c \in Cores |-> <<>>]
    /\ next_task = [c \in Cores |-> NoTask]
    /\ in_service = {}
    /\ suspended = {}
    /\ create_frame = [c \in Cores |-> NoFrame]
    /\ timer_frames = [t \in Tasks |-> 0]
    /\ running = [c \in Cores |-> IF c = 0 THEN current ELSE NoTask]

(* ---------------- run queue operations ---------------- *)

\* add_task_to_runqueue(task)
Add(c, t) ==
    /\ Idle(c)
    /\ Len(RUNQUEUE) < MaxQueue
    /\ RUNQUEUE' = add_task_to_runqueue(RUNQUEUE, t)
    /\ last' = Op("add", t, NoResult, <<>>)
    /\ UNCHANGED <<runnable, current, interrupts, halted, irqvars>>
    /\ UNCHANGED extvars

\* remove_task_from_runqueue(task)
Remove(c, t) ==
    /\ Idle(c)
    /\ RUNQUEUE' = remove_task_from_runqueue(RUNQUEUE, t)
    /\ last' = Op("remove", t, NoResult, <<>>)
    /\ UNCHANGED <<runnable, current, interrupts, halted, irqvars>>
    /\ UNCHANGED extvars

\* the task layer blocks or unblocks a task
SetRunnable(t, b) ==
    /\ runnable[t] # b
    /\ runnable' = [runnable EXCEPT ![t] = b]
    /\ last' = Op("set_runnable", t, NoResult, <<>>)
    /\ UNCHANGED <<RUNQUEUE, current, interrupts, halted, irqvars>>
    /\ UNCHANGED extvars

\* sti / cli executed by kernel code on core c
SetInterrupts(c, b) ==
    /\ Idle(c)
    /\ interrupts[c] # b
    /\ interrupts' = [interrupts EXCEPT ![c] = b]
    /\ last' = Op("set_interrupts", NoTask, NoResult, <<>>)
    /\ UNCHANGED <<RUNQUEUE, runnable, current, halted, irqvars>>
    /\ UNCHANGED extvars

\* a plausible slip: the assertion is tested after the RunQueue has been rotated
\* and the switch made
ScheduleCall_lateassert(c) ==
    /\ Idle(c)
    /\ LET r == schedule(RUNQUEUE, runnable, current) IN
       /\ RUNQUEUE' = r.queue
       /\ current' = r.current
       /\ IF interrupts[c]
          THEN /\ halted' = halted \cup {c}
               /\ last' = Op("schedule", NoTask,
                             [ret |-> "panic", selected |-> r.selected,
                              switches |-> r.switches],
                             <<Ev("schedule", 0), Ev("panic", 0)>>)
          ELSE /\ last' = Op("schedule", NoTask, r, <<Ev("schedule", 0)>>)
               /\ UNCHANGED halted
    /\ UNCHANGED <<runnable, interrupts, irqvars>>
    /\ UNCHANGED extvars

\* schedule() called directly: the assertion, then the body
ScheduleCall(c) ==
    /\ Idle(c)
    /\ IF interrupts[c]
       THEN /\ halted' = halted \cup {c}
            /\ last' = Op("schedule", NoTask,
                          [ret |-> "panic", selected |-> NoTask, switches |-> 0],
                          <<Ev("panic", 0)>>)
            /\ UNCHANGED <<RUNQUEUE, runnable, current, interrupts>>
       ELSE LET r == schedule(RUNQUEUE, runnable, current) IN
            /\ RUNQUEUE' = r.queue
            /\ current' = r.current
            /\ last' = Op("schedule", NoTask, r, <<Ev("schedule", 0)>>)
            /\ UNCHANGED <<runnable, interrupts, halted>>
    /\ UNCHANGED irqvars
    /\ UNCHANGED extvars

\* schedule!(): hold_interrupts(), schedule() with its assertion, then the guard
\* goes out of scope
ScheduleMacro(c) ==
    /\ Idle(c)
    /\ LET h == hold_interrupts(interrupts[c]) IN
       IF h.flag
       THEN /\ halted' = halted \cup {c}
            /\ interrupts' = [interrupts EXCEPT ![c] = h.flag]
            /\ last' = Op("schedule", NoTask,
                          [ret |-> "panic", selected |-> NoTask, switches |-> 0],
                          <<Ev("panic", 0)>>)
            /\ UNCHANGED <<RUNQUEUE, current>>
       ELSE LET r == schedule(RUNQUEUE, runnable, current) IN
            /\ RUNQUEUE' = r.queue
            /\ current' = r.current
            /\ interrupts' = [interrupts EXCEPT
                                ![c] = drop_held_interrupts(h.saved, h.flag)]
            /\ last' = Op("schedule", NoTask, r, <<Ev("schedule", 0)>>)
            /\ UNCHANGED halted
    /\ UNCHANGED <<runnable, irqvars>>
    /\ UNCHANGED extvars

(* ---------------- initialisation of the interrupt subsystem ---------------- *)

\* interrupts::init() of nano_core on the boot core: create_tss_gdt for the boot
\* core, then the IDT is filled and loaded
init(df, ps) ==
    /\ build = "nano_core"
    /\ Idle(0)
    /\ 0 \notin idt_loaded
    /\ LET s == create_tss_gdt(TSS, GDT, 0, df, ps) IN
       /\ TSS' = s.TSS
       /\ GDT' = s.GDT
       /\ SELECTORS' = record_selectors(SELECTORS, s.GDT[0])
    /\ IDT' = idt_after_init(IDT)
    /\ idt_loaded' = idt_loaded \cup {0}
    /\ last' = Op("init", NoTask, NoResult,
                  <<Ev("create_tss_gdt", 0), Ev("idt_load", 0)>>)
    /\ UNCHANGED <<schedvars_nolast, build, TICKS, APIC_TIMER_TICKS, apic_reg,
                   deliveries, pit_schedules, INTERRUPT_CHIP, PIC>>
    /\ create_frame' = [create_frame EXCEPT
          ![0] = [NoFrame EXCEPT !.df = df, !.done = TRUE]]
    /\ UNCHANGED <<SPURIOUS_COUNT, in_service, suspended, timer_frames, running,
                   lockvars>>

\* interrupts::init_ap() on another core: create_tss_gdt for that core, then the
\* shared IDT is loaded
init_ap(c, df, ps) ==
    /\ build = "nano_core"
    /\ c # 0
    /\ Idle(c)
    /\ 0 \in idt_loaded
    /\ c \notin idt_loaded
    /\ LET s == create_tss_gdt(TSS, GDT, c, df, ps) IN
       /\ TSS' = s.TSS
       /\ GDT' = s.GDT
       /\ SELECTORS' = record_selectors(SELECTORS, s.GDT[c])
    /\ idt_loaded' = idt_loaded \cup {c}
    /\ last' = Op("init_ap", NoTask, NoResult,
                  <<Ev("create_tss_gdt", c), Ev("idt_load", c)>>)
    /\ UNCHANGED <<schedvars_nolast, build, TICKS, APIC_TIMER_TICKS, apic_reg,
                   deliveries, pit_schedules, INTERRUPT_CHIP, PIC, IDT>>
    /\ create_frame' = [create_frame EXCEPT
          ![c] = [NoFrame EXCEPT !.df = df, !.done = TRUE]]
    /\ UNCHANGED <<SPURIOUS_COUNT, in_service, suspended, timer_frames, running,
                   lockvars>>

\* interrupts::init() of src/interrupts/mod.rs: the TSS and the GDT of the one
\* core, PIC.initialize(), IDT.load()
src_init(df, ps) ==
    /\ build = "src"
    /\ Idle(0)
    /\ 0 \notin idt_loaded
    /\ TSS' = [TSS EXCEPT ![0] = [present |-> TRUE, rsp0 |-> ps, ist0 |-> df]]
    /\ GDT' = [GDT EXCEPT ![0] = gdt_entries]
    /\ SELECTORS' = record_selectors(SELECTORS, gdt_entries)
    /\ PIC' = [init |-> TRUE, master_mask |-> 0, slave_mask |-> 0]
    /\ idt_loaded' = idt_loaded \cup {0}
    /\ last' = Op("init", NoTask, NoResult, <<Ev("gdt_load", 0), Ev("idt_load", 0)>>)
    /\ UNCHANGED <<schedvars_nolast, build, TICKS, APIC_TIMER_TICKS, apic_reg,
                   deliveries, pit_schedules, INTERRUPT_CHIP, IDT>>
    /\ create_frame' = [create_frame EXCEPT
          ![0] = [NoFrame EXCEPT !.df = df, !.done = TRUE]]
    /\ UNCHANGED <<SPURIOUS_COUNT, in_service, suspended, timer_frames, running,
                   lockvars>>

init_handlers_apic ==
    /\ build = "nano_core"
    /\ Idle(0)
    /\ 0 \in idt_loaded
    /\ PIC' = call_once(PIC, 255, 255)
    /\ IDT' = idt_after_init_handlers_apic(IDT)
    /\ last' = Op("init_handlers_apic", NoTask, NoResult, <<>>)
    /\ UNCHANGED <<schedvars_nolast, build, TICKS, APIC_TIMER_TICKS, apic_reg,
                   deliveries, pit_schedules, INTERRUPT_CHIP, idt_loaded>>
    /\ UNCHANGED extvars

init_handlers_pic ==
    /\ build = "nano_core"
    /\ Idle(0)
    /\ 0 \in idt_loaded
    /\ IDT' = idt_after_init_handlers_pic(IDT)
    /\ PIC' = call_once(PIC, 0, 8)
    /\ last' = Op("init_handlers_pic", NoTask, NoResult, <<>>)
    /\ UNCHANGED <<schedvars_nolast, build, TICKS, APIC_TIMER_TICKS, apic_reg,
                   deliveries, pit_schedules, INTERRUPT_CHIP, idt_loaded>>
    /\ UNCHANGED extvars

\* the boot code stores the controller it detected into INTERRUPT_CHIP
SelectChip(m) ==
    /\ build = "nano_core"
    /\ Idle(0)
    /\ \A c \in Cores : ~interrupts[c]
    /\ INTERRUPT_CHIP # m
    /\ INTERRUPT_CHIP' = m
    /\ last' = Op("select_chip", NoTask, NoResult, <<>>)
    /\ UNCHANGED <<schedvars_nolast, build, TICKS, APIC_TIMER_TICKS, apic_reg,
                   deliveries, pit_schedules, PIC, IDT, idt_loaded>>
    /\ UNCHANGED extvars

(* ---------------- timer handlers ---------------- *)

\* the hardware delivers vector v on core c to handler h
Delivered(c, v, h) ==
    /\ Idle(c)
    /\ interrupts[c]
    /\ c \in idt_loaded
    /\ IDT[v] = h

HasPanic(log) == \E i \in 1..Len(log) : log[i].ev = "panic"

IsEoi(e) == e.ev \in {"eoi_apic", "eoi_x2apic", "eoi_pic"}

\* an end-of-interrupt reached the controller
HasEoi(log) == \E i \in 1..Len(log) : IsEoi(log[i])

\* a plausible slip: the acknowledge is added in front of the tick handling and
\* the one behind it is kept
timer_handler_ackboth(chip, pic, ticks, q, rn, curr) ==
    LET h == nano_core_handle_timer_interrupt(ticks, q, rn, curr) IN
    [ticks |-> h.ticks, sched |-> h.sched, r |-> h.r,
     log |-> <<eoi(chip, pic, 32)>> \o h.log \o <<eoi(chip, pic, 32)>>]

\* nano_core timer_handler: pit_clock::handle_timer_interrupt(), then eoi(Some(0x20))
timer_handler(chip, pic, ticks, q, rn, curr) ==
    LET h == nano_core_handle_timer_interrupt(ticks, q, rn, curr) IN
    [ticks |-> h.ticks, sched |-> h.sched, r |-> h.r,
     log |-> h.log \o <<eoi(chip, pic, 32)>>]

\* src timer_handler: PIC.notify_end_of_interrupt(0x20), then handle_timer_interrupt()
src_timer_handler(ticks, q, rn, curr) ==
    LET h == handle_timer_interrupt(ticks, q, rn, curr) IN
    [ticks |-> h.ticks, sched |-> h.sched, r |-> h.r,
     log |-> <<Ev("eoi_pic", 32)>> \o h.log]

\* apic_timer_handler past the load of APIC_TIMER_TICKS: the store, eoi(None), schedule!()
apic_timer_handler(loaded, chip, pic, q, rn, curr) ==
    LET e == eoi(chip, pic, NoIrq)
        r == IF e.ev = "panic" THEN NotScheduled(q, curr) ELSE schedule(q, rn, curr)
    IN  [ticks |-> loaded + 1, sched |-> e.ev # "panic", r |-> r,
         log |-> <<Ev("tick", loaded + 1), e>>
                 \o (IF e.ev = "panic" THEN <<>> ELSE <<Ev("schedule", 0)>>)]

\* vector 0x20 while the PIC-mode handler is installed; the PIC interrupts the boot core
PitTimer(bound) ==
    /\ build = "nano_core"
    /\ Delivered(0, 32, "timer_handler")
    /\ TICKS < bound
    /\ LET h == timer_handler(INTERRUPT_CHIP, PIC, TICKS, RUNQUEUE, runnable, current) IN
       /\ TICKS' = h.ticks
       /\ RUNQUEUE' = h.r.queue
       /\ current' = h.r.current
       /\ pit_schedules' = pit_schedules + (IF h.sched THEN 1 ELSE 0)
       /\ halted' = IF HasPanic(h.log) THEN halted \cup {0} ELSE halted
       /\ last' = Op("timer_handler", NoTask, h.r, h.log)
    /\ deliveries' = [deliveries EXCEPT !.pit = @ + 1]
    /\ UNCHANGED <<runnable, interrupts, build, APIC_TIMER_TICKS, apic_reg,
                   INTERRUPT_CHIP, PIC, IDT, idt_loaded>>
    /\ UNCHANGED extvars

\* vector 0x20 in the src tree
SrcPitTimer(bound) ==
    /\ build = "src"
    /\ Delivered(0, 32, "timer_handler")
    /\ TICKS < bound
    /\ LET h == src_timer_handler(TICKS, RUNQUEUE, runnable, current) IN
       /\ TICKS' = h.ticks
       /\ RUNQUEUE' = h.r.queue
       /\ current' = h.r.current
       /\ pit_schedules' = pit_schedules + (IF h.sched THEN 1 ELSE 0)
       /\ last' = Op("src_timer_handler", NoTask, h.r, h.log)
    /\ deliveries' = [deliveries EXCEPT !.pit = @ + 1]
    /\ UNCHANGED <<runnable, interrupts, halted, build, APIC_TIMER_TICKS, apic_reg,
                   INTERRUPT_CHIP, PIC, IDT, idt_loaded>>
    /\ UNCHANGED extvars

\* vector 0x20 on core c in APIC mode: entry through the interrupt gate and the
\* load half of the unsynchronised APIC_TIMER_TICKS += 1
ApicTimerEnter(c) ==
    /\ build = "nano_core"
    /\ Delivered(c, 32, "apic_timer_handler")
    /\ deliveries.apic < MaxApicTicks
    /\ apic_reg' = [apic_reg EXCEPT ![c] = APIC_TIMER_TICKS]
    /\ interrupts' = [interrupts EXCEPT ![c] = FALSE]
    /\ deliveries' = [deliveries EXCEPT !.apic = @ + 1]
    /\ last' = Op("apic_timer_enter", NoTask, NoResult, <<>>)
    /\ UNCHANGED <<RUNQUEUE, runnable, current, halted, build, TICKS, APIC_TIMER_TICKS,
                   pit_schedules, INTERRUPT_CHIP, PIC, IDT, idt_loaded>>
    /\ UNCHANGED extvars

\* the rest of apic_timer_handler on core c, up to its iretq
ApicTimerFinish(c) ==
    /\ c \notin halted
    /\ apic_reg[c] # -1
    /\ LET h == apic_timer_handler(apic_reg[c], INTERRUPT_CHIP, PIC,
                                   RUNQUEUE, runnable, current) IN
       /\ APIC_TIMER_TICKS' = h.ticks
       /\ RUNQUEUE' = h.r.queue
       /\ current' = h.r.current
       /\ halted' = IF HasPanic(h.log) THEN halted \cup {c} ELSE halted
       /\ interrupts' = [interrupts EXCEPT ![c] = ~HasPanic(h.log)]
       /\ last' = Op("apic_timer_handler", NoTask, h.r, h.log)
    /\ apic_reg' = [apic_reg EXCEPT ![c] = -1]
    /\ UNCHANGED <<runnable, build, TICKS, deliveries, pit_schedules,
                   INTERRUPT_CHIP, PIC, IDT, idt_loaded>>
    /\ UNCHANGED extvars

(* ---------------- timer_handler up to its context switch ---------------- *)

\* the events of a handler that run before schedule() switches away from it
before_switch(log) ==
    SubSeq(log, 1, CHOOSE i \in 1..Len(log) : log[i].ev = "schedule")

\* where a context switch to task t lands: a task that was switched away from
\* inside timer_handler returns into that frame, which goes on to eoi(Some(0x20))
resume(chip, pic, susp, t) ==
    IF t \in susp THEN <<eoi(chip, pic, 32)>> ELSE <<>>

\* vector 0x20 delivered to timer_handler of nano_core; the controller delivers
\* it only while no earlier timer interrupt is in service. The handler runs to
\* its end, or to the context switch of schedule() if there is one
TimerInterrupt(bound) ==
    /\ build = "nano_core"
    /\ Delivered(0, 32, "timer_handler")
    /\ 0 \notin in_service
    /\ TICKS < bound
    /\ LET h == timer_handler(INTERRUPT_CHIP, PIC, TICKS, RUNQUEUE, runnable, current)
           switched == h.r.switches = 1
           ran == IF switched
                  THEN before_switch(h.log)
                       \o resume(INTERRUPT_CHIP, PIC, suspended, h.r.current)
                  ELSE h.log
       IN  /\ TICKS' = h.ticks
           /\ RUNQUEUE' = h.r.queue
           /\ current' = h.r.current
           /\ pit_schedules' = pit_schedules + (IF h.sched THEN 1 ELSE 0)
           /\ halted' = IF HasPanic(ran) THEN halted \cup {0} ELSE halted
           /\ in_service' = IF HasEoi(ran) THEN in_service ELSE in_service \cup {0}
           /\ suspended' = IF switched
                           THEN (suspended \cup {current}) \ {h.r.current}
                           ELSE suspended
           /\ last' = Op("timer_handler", NoTask, h.r, ran)
    /\ deliveries' = [deliveries EXCEPT !.pit = @ + 1]
    /\ UNCHANGED <<runnable, interrupts, build, APIC_TIMER_TICKS, apic_reg,
                   INTERRUPT_CHIP, PIC, IDT, idt_loaded>>
    /\ UNCHANGED <<SPURIOUS_COUNT, tssvars, lockvars, create_frame, timer_frames,
                   running>>

\* where a context switch to task t lands in the src tree: a task that was
\* switched away from inside handle_timer_interrupt returns into that frame,
\* which goes on to the heartbeat test on the ticks it had read
src_resume(frames, t) ==
    IF frames[t] # 0 /\ frames[t] % heartbeat_ticks = 0
    THEN <<Ev("heartbeat", frames[t])>>
    ELSE <<>>

\* vector 0x20 delivered to timer_handler of the src tree. The handler runs to
\* its end, or to the context switch of schedule() if there is one
SrcTimerInterrupt(bound) ==
    /\ build = "src"
    /\ Delivered(0, 32, "timer_handler")
    /\ TICKS < bound
    /\ LET h == src_timer_handler(TICKS, RUNQUEUE, runnable, current)
           switched == h.r.switches = 1
           ran == IF switched
                  THEN before_switch(h.log) \o src_resume(timer_frames, h.r.current)
                  ELSE h.log
       IN  /\ TICKS' = h.ticks
           /\ RUNQUEUE' = h.r.queue
           /\ current' = h.r.current
           /\ pit_schedules' = pit_schedules + (IF h.sched THEN 1 ELSE 0)
           /\ timer_frames' = IF switched
                              THEN [timer_frames EXCEPT ![current] = h.ticks,
                                                        ![h.r.current] = 0]
                              ELSE timer_frames
           /\ last' = Op("src_timer_handler", NoTask, h.r, ran)
    /\ deliveries' = [deliveries EXCEPT !.pit = @ + 1]
    /\ UNCHANGED <<runnable, interrupts, halted, build, APIC_TIMER_TICKS, apic_reg,
                   INTERRUPT_CHIP, PIC, IDT, idt_loaded>>
    /\ UNCHANGED <<SPURIOUS_COUNT, tssvars, lockvars, in_service, suspended,
                   create_frame, running>>

\* the task running on the boot core calls schedule!() of its own accord
TaskYield ==
    /\ Idle(0)
    /\ LET r == schedule(RUNQUEUE, runnable, current)
           ran == IF r.switches = 1
                  THEN resume(INTERRUPT_CHIP, PIC, suspended, r.current)
                       \o src_resume(timer_frames, r.current)
                  ELSE <<>>
       IN  /\ RUNQUEUE' = r.queue
           /\ current' = r.current
           /\ halted' = IF HasPanic(ran) THEN halted \cup {0} ELSE halted
           /\ in_service' = IF HasEoi(ran) THEN in_service \ {0} ELSE in_service
           /\ suspended' = suspended \ {r.current}
           /\ timer_frames' = [timer_frames EXCEPT ![r.current] = 0]
           /\ last' = Op("yield", NoTask, r, <<Ev("schedule", 0)>> \o ran)
    /\ UNCHANGED <<runnable, interrupts, irqvars>>
    /\ UNCHANGED <<SPURIOUS_COUNT, tssvars, lockvars, create_frame, running>>

(* ---------------- run queue operations, one lock scope at a time ---------------- *)

\* what a step of an operation taken one lock scope at a time leaves in last
LockStep == Op("lock_step", NoTask, NoResult, <<>>)

\* no core holds the RUNQUEUE lock
LockFree == \A c \in Cores : "RUNQUEUE" \notin held[c]

\* the operation of core c returns: every guard it still has goes out of scope
Return(c) ==
    /\ held' = [held EXCEPT ![c] = {}]
    /\ interrupts' = [interrupts EXCEPT ![c] = drop_all(held_ints[c], interrupts[c])]
    /\ held_ints' = [held_ints EXCEPT ![c] = <<>>]
    /\ next_task' = [next_task EXCEPT ![c] = NoTask]
    /\ pc' = [pc EXCEPT ![c] = "idle"]

\* core c moves to the next point of schedule(); the guards that end before
\* that point are dropped, the RUNQUEUE guard with the interrupts it holds
Advance(c, point) ==
    /\ pc' = [pc EXCEPT ![c] = point]
    /\ held' = [held EXCEPT ![c] = schedule_guards(point)]
    /\ IF "RUNQUEUE" \in held[c] /\ "RUNQUEUE" \notin schedule_guards(point)
       THEN /\ interrupts' = [interrupts EXCEPT ![c] =
                  drop_held_interrupts(held_ints[c][Len(held_ints[c])], interrupts[c])]
            /\ held_ints' = [held_ints EXCEPT
                  ![c] = SubSeq(held_ints[c], 1, Len(held_ints[c]) - 1)]
       ELSE UNCHANGED <<interrupts, held_ints>>

\* add_task_to_runqueue: RUNQUEUE.write() once the lock is free
AddLock(c) ==
    /\ Idle(c)
    /\ LockFree
    /\ Len(RUNQUEUE) + 1 \in Tasks
    /\ \A t \in Range(RUNQUEUE) : t <= Len(RUNQUEUE)
    /\ LET w == RwLockIrqSafe_write(interrupts[c]) IN
       /\ interrupts' = [interrupts EXCEPT ![c] = w.flag]
       /\ held_ints' = [held_ints EXCEPT ![c] = <<w.saved>>]
    /\ held' = [held EXCEPT ![c] = {"RUNQUEUE"}]
    /\ pc' = [pc EXCEPT ![c] = "add"]
    /\ last' = LockStep
    /\ UNCHANGED <<RUNQUEUE, runnable, current, halted, irqvars, SPURIOUS_COUNT, stepvars,
                   tssvars, next_task>>

\* add_task_to_runqueue: push_back of the newly spawned task, the guard is dropped
AddPush(c) ==
    /\ c \notin halted
    /\ pc[c] = "add"
    /\ RUNQUEUE' = add_task_to_runqueue(RUNQUEUE, Len(RUNQUEUE) + 1)
    /\ Return(c)
    /\ last' = LockStep
    /\ UNCHANGED <<runnable, current, halted, irqvars, SPURIOUS_COUNT, stepvars, tssvars>>

\* remove_task_from_runqueue: RUNQUEUE.write() once the lock is free
RemoveLock(c) ==
    /\ Idle(c)
    /\ LockFree
    /\ LET w == RwLockIrqSafe_write(interrupts[c]) IN
       /\ interrupts' = [interrupts EXCEPT ![c] = w.flag]
       /\ held_ints' = [held_ints EXCEPT ![c] = <<w.saved>>]
    /\ held' = [held EXCEPT ![c] = {"RUNQUEUE"}]
    /\ pc' = [pc EXCEPT ![c] = "remove"]
    /\ last' = LockStep
    /\ UNCHANGED <<RUNQUEUE, runnable, current, halted, irqvars, SPURIOUS_COUNT, stepvars,
                   tssvars, next_task>>

\* remove_task_from_runqueue(t): retain, the guard is dropped
RemoveRetain(c, t) ==
    /\ c \notin halted
    /\ pc[c] = "remove"
    /\ RUNQUEUE' = remove_task_from_runqueue(RUNQUEUE, t)
    /\ Return(c)
    /\ last' = LockStep
    /\ UNCHANGED <<runnable, current, halted, irqvars, SPURIOUS_COUNT, stepvars, tssvars>>

\* schedule!(): let _held_ints = hold_interrupts()
MacroEnter(c) ==
    /\ Idle(c)
    /\ LET h == hold_interrupts(interrupts[c]) IN
       /\ interrupts' = [interrupts EXCEPT ![c] = h.flag]
       /\ held_ints' = [held_ints EXCEPT ![c] = <<h.saved>>]
    /\ pc' = [pc EXCEPT ![c] = "schedule"]
    /\ last' = LockStep
    /\ UNCHANGED <<RUNQUEUE, runnable, current, halted, irqvars, SPURIOUS_COUNT, stepvars,
                   tssvars, held, next_task>>

\* schedule(): the assertion, then RUNQUEUE.write() once the lock is free
ScheduleLock(c) ==
    /\ c \notin halted
    /\ pc[c] = "schedule"
    /\ IF interrupts[c]
       THEN /\ halted' = halted \cup {c}
            /\ last' = Op("schedule_assert", NoTask,
                          [ret |-> "panic", selected |-> NoTask, switches |-> 0],
                          <<Ev("panic", 0)>>)
            /\ UNCHANGED <<interrupts, lockvars>>
       ELSE /\ LockFree
            /\ LET w == RwLockIrqSafe_write(interrupts[c]) IN
               /\ interrupts' = [interrupts EXCEPT ![c] = w.flag]
               /\ held_ints' = [held_ints EXCEPT ![c] = Append(@, w.saved)]
            /\ held' = [held EXCEPT ![c] = schedule_guards("select")]
            /\ pc' = [pc EXCEPT ![c] = "select"]
            /\ last' = LockStep
            /\ UNCHANGED <<halted, next_task>>
    /\ UNCHANGED <<RUNQUEUE, runnable, current, irqvars, SPURIOUS_COUNT, stepvars, tssvars>>

\* schedule(): select_next_task under the RUNQUEUE guard, return false when
\* nothing is runnable; the guard ends with the if let. Then the current task
\* is looked up under get_tasklist().read(), that guard ends with its block,
\* and current_task == next_task returns false
ScheduleSelect(c) ==
    /\ c \notin halted
    /\ pc[c] = "select"
    /\ LET sel == select_next_task(RUNQUEUE, runnable) IN
       /\ RUNQUEUE' = sel.queue
       /\ IF sel.chosen = NoTask \/ current = sel.chosen
          THEN Return(c)
          ELSE /\ Advance(c, "switch")
               /\ next_task' = [next_task EXCEPT ![c] = sel.chosen]
    /\ last' = LockStep
    /\ UNCHANGED <<runnable, current, halted, irqvars, SPURIOUS_COUNT, stepvars, tssvars>>

\* schedule(): curr.context_switch(next), return true
ScheduleSwitch(c) ==
    /\ c \notin halted
    /\ pc[c] = "switch"
    /\ current' = context_switch(current, next_task[c])
    /\ Return(c)
    /\ last' = LockStep
    /\ UNCHANGED <<RUNQUEUE, runnable, halted, irqvars, SPURIOUS_COUNT, stepvars, tssvars>>

\* schedule(): curr.context_switch(next), return true, with the task each core
\* executes kept: core c executes next from here on
ContextSwitch(c) ==
    /\ c \notin halted
    /\ pc[c] = "switch"
    /\ current' = context_switch(current, next_task[c])
    /\ running' = [running EXCEPT ![c] = context_switch(running[c], next_task[c])]
    /\ Return(c)
    /\ last' = Op("context_switch", next_task[c],
                  [ret |-> "true", selected |-> next_task[c], switches |-> 1],
                  <<Ev("core", c)>>)
    /\ UNCHANGED <<RUNQUEUE, runnable, halted, irqvars, SPURIOUS_COUNT, tssvars,
                   in_service, suspended, create_frame, timer_frames>>

(* ---------------- privilege stack ---------------- *)

\* tss_set_rsp0(new_top) called by the task layer on core c
TssSetRsp0(c, known, new_top) ==
    /\ build = "nano_core"
    /\ Idle(c)
    /\ LET id == get_my_apic_id(c, known)
           r == tss_set_rsp0(TSS, id, new_top)
       IN  /\ TSS' = r.TSS
           /\ last' = Op("tss_set_rsp0", new_top,
                         [ret |-> r.ret, selected |-> NoTask, switches |-> 0],
                         <<Ev("core", c), Ev("get_my_apic_id", id)>>)
    /\ UNCHANGED <<schedvars_nolast, irqvars, SPURIOUS_COUNT, stepvars, GDT, SELECTORS,
                   lockvars>>

(* ---------------- create_tss_gdt, one map access at a time ---------------- *)

\* a plausible slip: the new map is stored whatever the map has become since it
\* was read
AtomicMap_insert_store(map, seen, key, value) ==
    [ok |-> TRUE, map |-> [seen EXCEPT ![key] = value]]

\* the second half of AtomicMap::insert(key, value), the first half being the
\* read of the map as seen: the map with the new entry replaces the map only if
\* the map is still the one that was read; otherwise the insert starts over
AtomicMap_insert(map, seen, key, value) ==
    IF map = seen
    THEN [ok |-> TRUE, map |-> [seen EXCEPT ![key] = value]]
    ELSE [ok |-> FALSE, map |-> map]

\* what a step of create_tss_gdt leaves in last
CreateStep == Op("create_tss_gdt", NoTask, NoResult, <<>>)

\* core c enters create_tss_gdt(c, df, ps), once
CreateCall(c, df, ps) ==
    /\ Idle(c)
    /\ ~create_frame[c].done
    /\ pc' = [pc EXCEPT ![c] = "tss_read"]
    /\ create_frame' = [create_frame EXCEPT ![c] = [NoFrame EXCEPT !.df = df, !.ps = ps]]
    /\ last' = CreateStep
    /\ UNCHANGED <<schedvars_nolast, irqvars, SPURIOUS_COUNT, tssvars,
                   held, held_ints, next_task, in_service, suspended,
                   timer_frames, running>>

\* TSS.insert / GDT.insert on core c reads the map
MapRead(c) ==
    /\ c \notin halted
    /\ pc[c] \in {"tss_read", "gdt_read"}
    /\ create_frame' = [create_frame EXCEPT
          ![c].seen = IF pc[c] = "tss_read" THEN TSS ELSE GDT]
    /\ pc' = [pc EXCEPT ![c] = IF pc[c] = "tss_read" THEN "tss_insert" ELSE "gdt_insert"]
    /\ last' = CreateStep
    /\ UNCHANGED <<schedvars_nolast, irqvars, SPURIOUS_COUNT, tssvars,
                   held, held_ints, next_task, in_service, suspended,
                   timer_frames, running>>

\* TSS.insert(apic_id, tss) on core c completes or starts over; once it is in,
\* the GDT is built and its selectors are recorded, up to GDT.insert
TssInsert(c) ==
    /\ c \notin halted
    /\ pc[c] = "tss_insert"
    /\ LET f == create_frame[c]
           r == AtomicMap_insert(TSS, f.seen, c,
                                 [present |-> TRUE, rsp0 |-> f.ps, ist0 |-> f.df])
       IN  /\ TSS' = r.map
           /\ pc' = [pc EXCEPT ![c] = IF r.ok THEN "gdt_read" ELSE "tss_read"]
           /\ SELECTORS' = IF r.ok THEN record_selectors(SELECTORS, gdt_entries)
                           ELSE SELECTORS
    /\ create_frame' = [create_frame EXCEPT ![c].seen = <<>>]
    /\ last' = CreateStep
    /\ UNCHANGED <<schedvars_nolast, irqvars, SPURIOUS_COUNT, GDT,
                   held, held_ints, next_task, in_service, suspended,
                   timer_frames, running>>

\* GDT.insert(apic_id, gdt) on core c completes or starts over; once it is in,
\* the table and the segment registers are loaded and create_tss_gdt returns
GdtInsert(c) ==
    /\ c \notin halted
    /\ pc[c] = "gdt_insert"
    /\ LET r == AtomicMap_insert(GDT, create_frame[c].seen, c, gdt_entries) IN
       /\ GDT' = r.map
       /\ pc' = [pc EXCEPT ![c] = IF r.ok THEN "idle" ELSE "gdt_read"]
       /\ create_frame' = [create_frame EXCEPT ![c].seen = <<>>, ![c].done = r.ok]
    /\ last' = CreateStep
    /\ UNCHANGED <<schedvars_nolast, irqvars, SPURIOUS_COUNT, TSS, SELECTORS,
                   held, held_ints, next_task, in_service, suspended,
                   timer_frames, running>>

(* ---------------- device handlers ---------------- *)

\* values the master in-service register is read as
IsrValues == {0, 1, 128, 129}

\* master_isr & 0x80 == 0x80
isr_bit7(isr) == (isr \div 128) % 2 = 1

ioapic_keyboard_handler(chip, pic) ==
    <<Ev("read_scancode", 0), Ev("handle_keyboard_input", 0), eoi(chip, pic, NoIrq)>>

apic_spurious_interrupt_handler(chip, pic) ==
    <<eoi(chip, pic, NoIrq)>>

apic_unimplemented_interrupt_handler(chip, pic) ==
    <<Ev("print", 0), eoi(chip, pic, NoIrq)>>

keyboard_handler(chip, pic) ==
    <<Ev("read_scancode", 0), Ev("handle_keyboard_input", 0), eoi(chip, pic, 33)>>

\* a plausible slip: the acknowledge is sent without testing bit 7
spurious_interrupt_handler_always(chip, pic, isr) ==
    IF pic.init
    THEN <<Ev("read_isr", isr), eoi(chip, pic, 39)>>
    ELSE <<Ev("error", 0)>>

\* spurious_interrupt_handler of nano_core, past SPURIOUS_COUNT += 1
spurious_interrupt_handler(chip, pic, isr) ==
    IF pic.init
    THEN <<Ev("read_isr", isr)>>
         \o (IF isr_bit7(isr) THEN <<eoi(chip, pic, 39)>> ELSE <<>>)
    ELSE <<Ev("error", 0)>>

primary_ata(chip, pic) ==
    <<Ev("handle_primary_interrupt", 0), eoi(chip, pic, 46)>>

ipi_handler(chip, pic) ==
    <<Ev("tlb_shootdown", 0), eoi(chip, pic, NoIrq)>>

\* irq_0x22_handler .. irq_0x2D_handler: print, then loop {}
irq_handler_loop ==
    <<Ev("print", 0), Ev("loop", 0)>>

\* a plausible slip: the counter is incremented in the branch that found the
\* interrupt to be spurious
spurious_count_bitclear(count, h, isr) ==
    IF h = "spurious_interrupt_handler" /\ ~isr_bit7(isr) THEN count + 1 ELSE count

\* unsafe { SPURIOUS_COUNT += 1; }, the first statement of spurious_interrupt_handler
\* and of no other handler
spurious_count(count, h, isr) ==
    IF h = "spurious_interrupt_handler" THEN count + 1 ELSE count

\* the handlers of nano_core that are not timer handlers
DeviceHandlers ==
    {"ioapic_keyboard_handler", "apic_spurious_interrupt_handler",
     "apic_unimplemented_interrupt_handler", "keyboard_handler",
     "spurious_interrupt_handler", "primary_ata", "ipi_handler", "irq_handler_loop"}

\* the gate of the IDT entry: the body of the handler bound to the vector
handler_body(h, chip, pic, isr) ==
    CASE h = "ioapic_keyboard_handler" -> ioapic_keyboard_handler(chip, pic)
      [] h = "apic_spurious_interrupt_handler" -> apic_spurious_interrupt_handler(chip, pic)
      [] h = "apic_unimplemented_interrupt_handler" -> apic_unimplemented_interrupt_handler(chip, pic)
      [] h = "keyboard_handler" -> keyboard_handler(chip, pic)
      [] h = "spurious_interrupt_handler" -> spurious_interrupt_handler(chip, pic, isr)
      [] h = "primary_ata" -> primary_ata(chip, pic)
      [] h = "ipi_handler" -> ipi_handler(chip, pic)
      [] OTHER -> irq_handler_loop

\* a panic or a loop {} keeps the core inside the handler for good
Stops(log) == \E i \in 1..Len(log) : log[i].ev \in {"panic", "loop"}

\* vector v delivered on core c of nano_core; isr is what the master ISR reads
\* as in the one handler that reads it
DeviceInterrupt(c, v, isr) ==
    /\ build = "nano_core"
    /\ Idle(c)
    /\ interrupts[c]
    /\ c \in idt_loaded
    /\ IDT[v] \in DeviceHandlers
    /\ IDT[v] # "spurious_interrupt_handler" => isr = 0
    /\ IDT[v] = "spurious_interrupt_handler" => SPURIOUS_COUNT < MaxSpurious
    /\ LET log == handler_body(IDT[v], INTERRUPT_CHIP, PIC, isr) IN
       /\ SPURIOUS_COUNT' = spurious_count(SPURIOUS_COUNT, IDT[v], isr)
       /\ halted' = IF Stops(log) THEN halted \cup {c} ELSE halted
       /\ last' = Op(IDT[v], NoTask, NoResult, log)
    /\ UNCHANGED <<RUNQUEUE, runnable, current, interrupts, irqvars, tssvars, lockvars,
                   stepvars>>

\* keyboard_handler of the src tree
src_keyboard_handler ==
    <<Ev("read_scancode", 0), Ev("handle_keyboard_input", 0), Ev("eoi_pic", 33)>>

\* spurious_interrupt_handler of the src tree
src_spurious_interrupt_handler(isr) ==
    <<Ev("read_isr", isr)>> \o (IF isr_bit7(isr) THEN <<Ev("eoi_pic", 39)>> ELSE <<>>)

\* primary_ata of the src tree
src_primary_ata ==
    <<Ev("eoi_pic", 46), Ev("handle_primary_interrupt", 0)>>

\* unimplemented_interrupt_handler of the src tree: print, then loop {}
src_unimplemented_interrupt_handler ==
    <<Ev("print", 0), Ev("loop", 0)>>

SrcDeviceHandlers ==
    {"keyboard_handler", "spurious_interrupt_handler", "primary_ata",
     "unimplemented_interrupt_handler"}

src_handler_body(h, isr) ==
    CASE h = "keyboard_handler" -> src_keyboard_handler
      [] h = "spurious_interrupt_handler" -> src_spurious_interrupt_handler(isr)
      [] h = "primary_ata" -> src_primary_ata
      [] OTHER -> src_unimplemented_interrupt_handler

\* vector v delivered in the src tree
SrcDeviceInterrupt(v, isr) ==
    /\ build = "src"
    /\ Idle(0)
    /\ interrupts[0]
    /\ 0 \in idt_loaded
    /\ IDT[v] \in SrcDeviceHandlers
    /\ IDT[v] # "spurious_interrupt_handler" => isr = 0
    /\ LET log == src_handler_body(IDT[v], isr) IN
       /\ halted' = IF Stops(log) THEN halted \cup {0} ELSE halted
       /\ last' = Op("src_" \o IDT[v], NoTask, NoResult, log)
    /\ UNCHANGED <<RUNQUEUE, runnable, current, interrupts, irqvars, extvars>>

\* the exception handlers of the src tree that end in loop {}
FatalHandlers ==
    {"divide_by_zero_handler", "invalid_opcode_handler", "page_fault_handler",
     "double_fault_handler", "segment_not_present_handler",
     "general_protection_fault_handler"}

\* a plausible slip: every exception handler returns after printing
src_exception_handler_returns(h) ==
    <<Ev("print", 0)>>

\* the exception handlers of the src tree: println_unsafe!, and loop {} in all
\* but breakpoint_handler and device_not_available_handler
src_exception_handler(h) ==
    IF h \in FatalHandlers
    THEN <<Ev("print", 0), Ev("loop", 0)>>
    ELSE <<Ev("print", 0)>>

\* the CPU raises exception v in the src tree; exceptions ignore the interrupt flag
SrcException(v) ==
    /\ build = "src"
    /\ Idle(0)
    /\ 0 \in idt_loaded
    /\ IDT[v] # "missing"
    /\ LET log == src_exception_handler(IDT[v]) IN
       /\ halted' = IF Stops(log) THEN halted \cup {0} ELSE halted
       /\ last' = Op("src_" \o IDT[v], NoTask, NoResult, log)
    /\ UNCHANGED <<RUNQUEUE, runnable, current, interrupts, irqvars, extvars>>

\* the task layer spawns the next task and enqueues it: add_task_to_runqueue(t)
\* with t the lowest task id not yet created
Spawn(c) ==
    /\ Len(RUNQUEUE) + 1 \in Tasks
    /\ \A t \in Range(RUNQUEUE) : t <= Len(RUNQUEUE)
    /\ Add(c, Len(RUNQUEUE) + 1)

(* ---------------- specifications ---------------- *)

\* the top of the double-fault stack the boot code allocates; the privilege
\* stack follows it
BootStack == 1

\* the run queue and schedule() of nano_core under every order of calls, issued
\* from the boot core
Next ==
    \/ \E t \in Tasks : Add(0, t)
    \/ \E t \in Tasks : Remove(0, t)
    \/ \E t \in Tasks, b \in BOOLEAN : SetRunnable(t, b)
    \/ \E b \in BOOLEAN : SetInterrupts(0, b)
    \/ ScheduleCall(0)
    \/ ScheduleMacro(0)

InitNanoCore == Init /\ build = "nano_core"

Spec == InitNanoCore /\ [][Next]_vars

\* the PIT timer path of both source trees, driven for MaxPitRun ticks
NextPit ==
    \/ init(BootStack, BootStack + 1)
    \/ src_init(BootStack, BootStack + 1)
    \/ init_handlers_pic
    \/ SelectChip("PIC")
    \/ SetInterrupts(0, TRUE)
    \/ Spawn(0)
    \/ PitTimer(MaxPitRun)
    \/ SrcPitTimer(MaxPitRun)

SpecPit == Init /\ [][NextPit]_vars

\* the APIC timer path of nano_core on every core
NextApic ==
    \/ init(BootStack, BootStack + 1)
    \/ \E c \in Cores : init_ap(c, BootStack, BootStack + 1)
    \/ init_handlers_apic
    \/ \E m \in {"APIC", "x2apic", "PIC"} : SelectChip(m)
    \/ \E c \in Cores : SetInterrupts(c, TRUE)
    \/ Spawn(0)
    \/ \E c \in Cores : ApicTimerEnter(c)
    \/ \E c \in Cores : ApicTimerFinish(c)

SpecApic == InitNanoCore /\ [][NextApic]_vars

\* the device handlers of both source trees under every controller mode
NextEoi ==
    \/ init(BootStack, BootStack + 1)
    \/ src_init(BootStack, BootStack + 1)
    \/ init_handlers_apic
    \/ init_handlers_pic
    \/ \E m \in {"APIC", "x2apic", "PIC"} : SelectChip(m)
    \/ SetInterrupts(0, TRUE)
    \/ \E v \in 32..255, isr \in IsrValues : DeviceInterrupt(0, v, isr)
    \/ \E v \in 32..255, isr \in IsrValues : SrcDeviceInterrupt(v, isr)
    \/ \E v \in 0..31 : SrcException(v)

SpecEoi == Init /\ [][NextEoi]_vars

\* the PIT timer handlers of both trees in PIC mode, with the handler of
\* nano_core taken up to its context switch and tasks that may or may not call
\* schedule!() themselves
NextLive ==
    \/ init(BootStack, BootStack + 1)
    \/ src_init(BootStack, BootStack + 1)
    \/ init_handlers_pic
    \/ SelectChip("PIC")
    \/ SetInterrupts(0, TRUE)
    \/ Spawn(0)
    \/ TimerInterrupt(MaxLiveRun)
    \/ SrcPitTimer(MaxLiveRun)
    \/ TaskYield

\* the timer keeps firing while the controller lets it; no task is obliged to
\* yield
SpecLive ==
    /\ Init
    /\ [][NextLive]_vars
    /\ WF_vars(TimerInterrupt(MaxLiveRun))
    /\ WF_vars(SrcPitTimer(MaxLiveRun))

\* the PIT timer handler of the src tree for MaxPitRun ticks, taken up to the
\* context switch of the schedule!() it makes
NextBeat ==
    \/ src_init(BootStack, BootStack + 1)
    \/ SetInterrupts(0, TRUE)
    \/ Spawn(0)
    \/ SrcTimerInterrupt(MaxPitRun)

InitSrc == Init /\ build = "src"

SpecBeat == InitSrc /\ [][NextBeat]_vars

\* the per-core TSS map: set-up of the cores with every pair of stack tops, and
\* tss_set_rsp0 from every core
NextTss ==
    \/ \E df, ps \in Addrs : init(df, ps)
    \/ \E c \in Cores, df, ps \in Addrs : init_ap(c, df, ps)
    \/ \E c \in Cores, known \in BOOLEAN, a \in Addrs : TssSetRsp0(c, known, a)

SpecTss == InitNanoCore /\ [][NextTss]_vars

\* create_tss_gdt on every core with every pair of stack tops, the cores
\* interleaved at the accesses to the two maps
NextCreate ==
    \/ \E c \in Cores, df, ps \in Addrs : CreateCall(c, df, ps)
    \/ \E c \in Cores : MapRead(c)
    \/ \E c \in Cores : TssInsert(c)
    \/ \E c \in Cores : GdtInsert(c)

SpecCreate == InitNanoCore /\ [][NextCreate]_vars

\* add, remove and schedule!() on every core, interleaved at their lock scopes
NextLock ==
    \/ \E c \in Cores : SetInterrupts(c, TRUE)
    \/ \E c \in Cores : AddLock(c)
    \/ \E c \in Cores : AddPush(c)
    \/ \E c \in Cores : RemoveLock(c)
    \/ \E c \in Cores, t \in Tasks : RemoveRetain(c, t)
    \/ \E c \in Cores : MacroEnter(c)
    \/ \E c \in Cores : ScheduleLock(c)
    \/ \E c \in Cores : ScheduleSelect(c)
    \/ \E c \in Cores : ScheduleSwitch(c)

SpecLock == InitNanoCore /\ [][NextLock]_vars

\* schedule!() on every core over one RunQueue, one step of schedule() at a
\* time, with the task that each core executes
NextSmp ==
    \/ Spawn(0)
    \/ \E c \in Cores : MacroEnter(c)
    \/ \E c \in Cores : ScheduleLock(c)
    \/ \E c \in Cores : ScheduleSelect(c)
    \/ \E c \in Cores : ContextSwitch(c)

SpecSmp == InitNanoCore /\ [][NextSmp]_vars

\* the vectors of the handlers that acknowledge: keyboard, primary ATA, the TLB
\* shootdown IPI and the APIC spurious vector; each of them has the handler of
\* the vectors without a device until init_handlers_apic or init_handlers_pic
AckVectors == {33, 46, TLB_SHOOTDOWN_IPI_IRQ, APIC_SPURIOUS_INTERRUPT_VECTOR}

\* every handler of nano_core that acknowledges, under every controller mode and
\* both sets of handlers, each delivery taken from entry to return
NextAck ==
    \/ init(BootStack, BootStack + 1)
    \/ init_handlers_apic
    \/ init_handlers_pic
    \/ \E m \in {"APIC", "x2apic", "PIC"} : SelectChip(m)
    \/ SetInterrupts(0, TRUE)
    \/ Spawn(0)
    \/ \E v \in AckVectors : DeviceInterrupt(0, v, 0)
    \/ PitTimer(timeslice_ticks)
    \/ ApicTimerEnter(0)
    \/ ApicTimerFinish(0)

SpecAck == InitNanoCore /\ [][NextAck]_vars

(* ---------------- properties ---------------- *)

LogHas(l, e) == \E i \in 1..Len(l.log) : l.log[i].ev = e

\* the operation just performed ran the body of schedule()
RanSchedule(l) == LogHas(l, "schedule")

NoDuplicates(q) == \A i, j \in 1..Len(q) : q[i] = q[j] => i = j

\* C1: schedule() selects the first runnable entry counted from the front, takes
\* it out of its position and appends it to the back; the entries before it keep
\* their places and the entries after it move up by one, whether or not the
\* selected task is the current one.
C1_SelectFirstRunnableRotate ==
    [][RanSchedule(last') =>
        LET n == Len(RUNQUEUE)
            S == {i \in 1..n : runnable[RUNQUEUE[i]]}
        IN  S # {} =>
              LET f == CHOOSE i \in S : \A j \in S : i <= j IN
              /\ last'.selected = RUNQUEUE[f]
              /\ Len(RUNQUEUE') = n
              /\ \A j \in 1..(f - 1) : RUNQUEUE'[j] = RUNQUEUE[j]
              /\ \A j \in f..(n - 1) : RUNQUEUE'[j] = RUNQUEUE[j + 1]
              /\ RUNQUEUE'[n] = RUNQUEUE[f]]_vars

\* [A runnable, B blocked, C runnable] has become [B, C, A] with A selected,
\* A being the current task
C1_Witness ==
    /\ last.op = "schedule"
    /\ last.selected = 1
    /\ current = 1
    /\ RUNQUEUE = <<2, 3, 1>>
    /\ ~runnable[2]
    /\ runnable[3]

\* C2: when schedule() finds a runnable task it returns true and invokes the
\* context switch once, making the selected task current, if and only if the
\* selected task is not the current one; otherwise it returns false, invokes no
\* context switch and the current task stays.
C2_SwitchIffNotCurrent ==
    [][(RanSchedule(last') /\ \E i \in 1..Len(RUNQUEUE) : runnable[RUNQUEUE[i]]) =>
        /\ last'.selected \in Range(RUNQUEUE)
        /\ IF last'.selected # current
           THEN last'.ret = "true" /\ last'.switches = 1 /\ current' = last'.selected
           ELSE last'.ret = "false" /\ last'.switches = 0 /\ current' = current]_vars

\* a switch was performed to a task taken from a queue of several
C2_Witness ==
    /\ last.op = "schedule"
    /\ last.ret = "true"
    /\ last.switches = 1
    /\ current = last.selected
    /\ Len(RUNQUEUE) >= 2

\* C3: with an empty run queue or no runnable task in it, schedule() returns
\* false, invokes no context switch and leaves the run queue as it was.
C3_NoRunnableNoChange ==
    [][(RanSchedule(last') /\ \A i \in 1..Len(RUNQUEUE) : ~runnable[RUNQUEUE[i]]) =>
        /\ last'.ret = "false"
        /\ last'.switches = 0
        /\ last'.selected = NoTask
        /\ current' = current
        /\ RUNQUEUE' = RUNQUEUE]_vars

\* schedule() ran over a queue of blocked tasks
C3_Witness ==
    /\ last.op = "schedule"
    /\ last.ret = "false"
    /\ last.selected = NoTask
    /\ Len(RUNQUEUE) >= 2
    /\ \A i \in 1..Len(RUNQUEUE) : ~runnable[RUNQUEUE[i]]

\* C4: remove(task) for a task that is not in the run queue changes nothing.
C4_RemoveAbsentIsNoOp ==
    [][(last'.op = "remove" /\ last'.arg \notin Range(RUNQUEUE)) =>
        RUNQUEUE' = RUNQUEUE]_vars

\* C5: after remove(task) the run queue holds no entry identical to task and
\* all other entries in their original relative order.
C5_RemoveDropsExactlyTask ==
    [][last'.op = "remove" =>
        /\ last'.arg \notin Range(RUNQUEUE')
        /\ RUNQUEUE' = SelectSeq(RUNQUEUE, LAMBDA x : x # last'.arg)]_vars

\* C6 as stated: in every reachable state each task handle appears at most once
\* in the run queue.
C6_AtMostOnce == NoDuplicates(RUNQUEUE)

\* C6 amended: a run queue without duplicates stays without duplicates across
\* every operation except an add of a handle that is already in it.
C6_UniquenessPreserved ==
    [][(NoDuplicates(RUNQUEUE)
        /\ ~(last'.op = "add" /\ last'.arg \in Range(RUNQUEUE)))
       => NoDuplicates(RUNQUEUE')]_vars

\* schedule() rotated a full queue of distinct handles
C6_Witness ==
    /\ last.op = "schedule"
    /\ last.selected # NoTask
    /\ Len(RUNQUEUE) = MaxQueue
    /\ NoDuplicates(RUNQUEUE)
    /\ RUNQUEUE[Len(RUNQUEUE)] = last.selected

\* C7: in every timer handler the end-of-interrupt is sent before the scheduler
\* is invoked.
C7_EoiBeforeSchedule ==
    last.op \in {"timer_handler", "src_timer_handler", "apic_timer_handler"} =>
        \A i \in 1..Len(last.log) :
            last.log[i].ev = "schedule" =>
                \E j \in 1..(i - 1) : IsEoi(last.log[j])

C9_ApicScheduleEveryNTicks ==
    (last.op = "apic_timer_handler" /\ RanSchedule(last)) =>
        \A i \in 1..Len(last.log) :
            last.log[i].ev = "tick" => last.log[i].arg % timeslice_ticks = 0

\* C10: with no timer handler in flight each tick counter equals the number of
\* timer deliveries made to it.
C10_TicksCountDeliveries ==
    (\A c \in Cores : apic_reg[c] = -1) =>
        /\ TICKS = deliveries.pit
        /\ APIC_TIMER_TICKS = deliveries.apic

EoiEvents(log) == SelectSeq(log, IsEoi)

\* the handlers of nano_core that call eoi(None)
EoiNoneHandlers ==
    {"ioapic_keyboard_handler", "apic_spurious_interrupt_handler",
     "apic_unimplemented_interrupt_handler", "ipi_handler", "apic_timer_handler"}

\* the handlers of nano_core that call eoi on every path
EoiHandlers ==
    EoiNoneHandlers \cup {"keyboard_handler", "primary_ata", "timer_handler"}

\* C11: an acknowledge issued in PIC mode without an IRQ number is a recoverable
\* error: the handler that issued it neither panics nor stops its core, and no
\* end-of-interrupt reaches the controller.
C11_PicEoiWithoutIrqRecoverable ==
    (INTERRUPT_CHIP = "PIC" /\ PIC.init /\ last.op \in EoiNoneHandlers) =>
        /\ ~HasPanic(last.log)
        /\ halted = {}
        /\ EoiEvents(last.log) = <<>>

\* C12: in APIC or x2apic mode the acknowledge of every handler succeeds and is
\* the one write of the fixed value 0 to the controller of that mode, whether
\* the handler passed no IRQ number or passed one.
C12_ApicEoiFixedWrite ==
    (INTERRUPT_CHIP \in {"APIC", "x2apic"} /\ last.op \in EoiHandlers) =>
        /\ ~HasPanic(last.log)
        /\ EoiEvents(last.log) =
             <<Ev(IF INTERRUPT_CHIP = "APIC" THEN "eoi_apic" ELSE "eoi_x2apic", 0)>>

C12_Witness ==
    /\ INTERRUPT_CHIP = "x2apic"
    /\ last.op = "keyboard_handler"
    /\ last.log = <<Ev("read_scancode", 0), Ev("handle_keyboard_input", 0),
                  Ev("eoi_x2apic", 0)>>

\* C13: the handler of the legacy spurious vector 0x27 sends no acknowledge when
\* bit 7 of the master in-service register it read is clear, and exactly one
\* acknowledge, the one for IRQ 0x27, when the bit is set.
C13_SpuriousAckIffBit7 ==
    (last.op \in {"spurious_interrupt_handler", "src_spurious_interrupt_handler"}
     /\ LogHas(last, "read_isr")) =>
        LET isr == (CHOOSE i \in 1..Len(last.log) : last.log[i].ev = "read_isr")
            acks == EoiEvents(last.log)
        IN  /\ last.log[isr].arg % 256 < 128 => acks = <<>>
            /\ last.log[isr].arg % 256 >= 128 =>
                 /\ Len(acks) = 1
                 /\ acks[1].ev = "eoi_pic" => acks[1].arg = 39

C13_Witness ==
    /\ last.op = "spurious_interrupt_handler"
    /\ last.log = <<Ev("read_isr", 129), Ev("eoi_pic", 39)>>

\* C14: once init has loaded the IDT, every vector 0 through 255 has a handler
\* bound: no entry, exception or interrupt, vector 255 included, is left unset.
C14_EveryVectorBound ==
    idt_loaded # {} => \A v \in Vectors : IDT[v] # "missing"

\* the core that ran the tss_set_rsp0 recorded in l, and the id it obtained
TssCaller(l) == l.log[1].arg

TssApicId(l) == l.log[2].arg

C16_SetRsp0ErrorLeavesTss ==
    [][(last'.op = "tss_set_rsp0"
        /\ (TssApicId(last') = NoApicId \/ ~TSS[TssCaller(last')].present)) =>
          /\ last'.ret \in {"Err(couldn't get_my_apic_id)",
                            "Err(No TSS for the current core's apid id)"}
          /\ halted' = halted
          /\ TSS' = TSS]_vars

C16_Witness ==
    /\ last.op = "tss_set_rsp0"
    /\ TssCaller(last) = 1
    /\ TssApicId(last) = 1
    /\ ~TSS[1].present
    /\ TSS[0].present
    /\ last.ret = "Err(No TSS for the current core's apid id)"

\* core c is inside schedule!(), between hold_interrupts() and the return of
\* schedule()
InScheduleMacro(c) == pc[c] \in {"schedule", "select", "switch"}

\* C17: interrupts are disabled on a core at every point of schedule!(), from
\* the call of schedule() to its return or its context switch, and the
\* assertion of schedule() therefore never fails there.
C17_InterruptsOffThroughSchedule ==
    \A c \in Cores : InScheduleMacro(c) => (~interrupts[c] /\ c \notin halted)

C17_Witness ==
    /\ pc[0] = "switch"
    /\ held_ints[0] = <<TRUE>>
    /\ ~interrupts[0]

\* C18: schedule!() leaves the interrupt flag of its core as it found it, when
\* schedule() returns false as well as when it returns true.
C18_MacroRestoresInterrupts ==
    [][(last'.op = "schedule" /\ RanSchedule(last')) =>
          /\ interrupts' = interrupts
          /\ last'.ret \in {"false", "true"}]_vars

C18_Witness ==
    /\ last.op = "schedule"
    /\ RanSchedule(last)
    /\ last.ret = "true"
    /\ interrupts[0]

\* C19: a core that holds the RUNQUEUE lock, in add, remove or schedule, has
\* its interrupts disabled, and at most one core holds the lock.
C19_LockHeldInterruptsOff ==
    /\ \A c \in Cores : "RUNQUEUE" \in held[c] => ~interrupts[c]
    /\ \A c, d \in Cores : ("RUNQUEUE" \in held[c] /\ "RUNQUEUE" \in held[d]) => c = d

C19_Witness ==
    /\ pc[1] = "add"
    /\ "RUNQUEUE" \in held[1]
    /\ held_ints[1] = <<TRUE>>
    /\ ~interrupts[1]

\* C20: at the context switch of schedule() the core holds no lock: not the
\* RUNQUEUE lock, not the task list lock, not the lock of a task.
C20_NoLockAtContextSwitch ==
    \A c \in Cores : pc[c] = "switch" => held[c] = {}

C20_Witness ==
    /\ pc[1] = "switch"
    /\ next_task[1] # current
    /\ next_task[1] # NoTask
    /\ pc[0] = "add"

\* C21: the controller mode is PIC for as long as nothing has selected a mode:
\* it is PIC when the kernel starts and only a selection changes it.
C21_DefaultModeLegacy ==
    /\ INTERRUPT_CHIP = "PIC"
    /\ [][last'.op # "select_chip" => INTERRUPT_CHIP' = INTERRUPT_CHIP]_vars

\* C22: whenever the handlers of init_handlers_apic are installed, the PIC has
\* been initialised (remapped) with both of its masks 0xFF, whatever ran before.
C22_ApicHandlersImplyPicMasked ==
    IDT[32] = "apic_timer_handler" =>
        (PIC.init /\ PIC.master_mask = 255 /\ PIC.slave_mask = 255)

\* the handlers bound to the vectors in 32-254 that no device uses
UnimplementedHandlers ==
    {"apic_unimplemented_interrupt_handler", "irq_handler_loop",
     "src_unimplemented_interrupt_handler"}

\* C23: the handler of a vector in 32-254 without a device acknowledges the
\* interrupt once and returns, in every controller mode: it neither panics nor
\* keeps the core.
C23_UnimplementedAckAndReturn ==
    last.op \in UnimplementedHandlers =>
        /\ ~Stops(last.log)
        /\ halted = {}
        /\ Len(EoiEvents(last.log)) = 1

\* the fatal handlers as the operations of the src tree
FatalOps == {"src_" \o h : h \in FatalHandlers}

\* C24: a handler of a fatal fault (divide by zero, invalid opcode, double
\* fault, segment not present, general protection, page fault) never returns:
\* it sends no acknowledge, and the core it halted stays halted.
C24_FatalFaultHalts ==
    [][/\ last'.op \in FatalOps =>
            /\ Stops(last'.log)
            /\ EoiEvents(last'.log) = <<>>
            /\ 0 \in halted'
       /\ 0 \in halted => 0 \in halted']_vars

C24_Witness ==
    /\ last.op = "src_general_protection_fault_handler"
    /\ 0 \in halted

\* the keyboard and ATA handlers of both trees
CallbackHandlers ==
    {"ioapic_keyboard_handler", "keyboard_handler", "primary_ata",
     "src_keyboard_handler", "src_primary_ata"}

\* the device callbacks: keyboard::handle_keyboard_input and
\* ata_pio::handle_primary_interrupt, both of which return
IsCallback(e) == e.ev \in {"handle_keyboard_input", "handle_primary_interrupt"}

\* the reads of data the hardware latched
IsLatchRead(e) == e.ev = "read_scancode"

\* C25: in every keyboard and ATA handler the latched data is read before the
\* device callback runs, and the acknowledge is sent after the callback, which
\* always returns.
C25_ReadCallbackAck ==
    last.op \in CallbackHandlers =>
        \A i, j \in 1..Len(last.log) :
            /\ (IsLatchRead(last.log[i]) /\ IsCallback(last.log[j])) => i < j
            /\ (IsCallback(last.log[i]) /\ IsEoi(last.log[j])) => i < j

\* C26: on every core whose IDT is loaded, the TSS and the GDT of that core were
\* created and inserted before, by the same init or init_ap: no core can take an
\* interrupt without a registered TSS.
C26_TssBeforeIdtLoad ==
    /\ \A c \in idt_loaded : TSS[c].present /\ GDT[c] = gdt_entries
    /\ last.op \in {"init", "init_ap"} =>
         \A j \in 1..Len(last.log) :
            last.log[j].ev = "idt_load" =>
               \E i \in 1..(j - 1) :
                  last.log[i] = Ev("create_tss_gdt", last.log[j].arg)

C26_Witness ==
    /\ last.op = "init_ap"
    /\ idt_loaded = Cores
    /\ \A c \in Cores : TSS[c].present

\* C27: add(task) appends at the back of the run queue: afterwards the last
\* entry is task, the queue is one longer, and every earlier entry is where it
\* was.
C27_AddAppends ==
    [][last'.op = "add" =>
         /\ Len(RUNQUEUE') = Len(RUNQUEUE) + 1
         /\ RUNQUEUE'[Len(RUNQUEUE')] = last'.arg
         /\ \A i \in 1..Len(RUNQUEUE) : RUNQUEUE'[i] = RUNQUEUE[i]]_vars

C27_Witness ==
    /\ last.op = "add"
    /\ Len(RUNQUEUE) = MaxQueue
    /\ RUNQUEUE[MaxQueue] = last.arg
    /\ RUNQUEUE[1] # last.arg

\* C28: every timer interrupt that is delivered is eventually acknowledged, also
\* when the scheduler run by the handler switches to a task that never switches
\* back, in PIC mode and in APIC mode.
C28_TimerEventuallyAcked ==
    \A c \in Cores : (c \in in_service) ~> (c \notin in_service)

\* C29: tss_set_rsp0 on core c changes nothing but the ring 0 stack top of the
\* TSS entry of core c: the double-fault stack top of c, the TSS entry of every
\* other core and the GDT of every core are as before.
C29_SetRsp0Frame ==
    [][last'.op = "tss_set_rsp0" =>
         /\ GDT' = GDT
         /\ \A d \in Cores :
               /\ TSS'[d].present = TSS[d].present
               /\ TSS'[d].ist0 = TSS[d].ist0
               /\ d # TssCaller(last') => TSS'[d] = TSS[d]]_vars

C29_Witness ==
    /\ last.op = "tss_set_rsp0"
    /\ last.ret = "Ok"
    /\ TssCaller(last) = 1
    /\ TSS[1].rsp0 = last.arg
    /\ TSS[1].ist0 # last.arg
    /\ TSS[0].present
    /\ TSS[0].rsp0 # last.arg

\* C30: with create_tss_gdt running on different cores at once, the TSS entry
\* of each core holds the stack tops that core supplied from the moment it is
\* inserted, and the GDT of each core is its own once create_tss_gdt returned:
\* no call loses or overwrites the entry of another core.
C30_ConcurrentCreateKeepsEntries ==
    \A c \in Cores :
        /\ (pc[c] \in {"gdt_read", "gdt_insert"} \/ create_frame[c].done) =>
              TSS[c] = [present |-> TRUE, rsp0 |-> create_frame[c].ps,
                        ist0 |-> create_frame[c].df]
        /\ create_frame[c].done => GDT[c] = gdt_entries

\* core 1 completed while core 0 was between the read and the insert of its own
\* GDT.insert, and the two cores supplied different stacks
C30_Witness ==
    /\ create_frame[1].done
    /\ pc[0] = "gdt_insert"
    /\ create_frame[0].seen # GDT
    /\ TSS[0].rsp0 # TSS[1].rsp0
    /\ TSS[0].ist0 # TSS[1].ist0

\* C31: the GDT of every core holds its descriptors in the order null, kernel
\* code, kernel data, user code 32, user data 32, user code 64, user data 64,
\* TSS, so the index of each role is the same on every core and is the
\* selector the first core recorded for that role.
C31_GdtOrderAndSelectors ==
    \A c \in Cores :
        GDT[c] # <<>> =>
            /\ GDT[c] = <<"null", "kernel_code_segment", "kernel_data_segment",
                          "user_code_32_segment", "user_data_32_segment",
                          "user_code_64_segment", "user_data_64_segment",
                          "tss_segment">>
            /\ \A r \in SelectorRoles :
                  /\ SELECTORS[r] # NoSelector
                  /\ GDT[c][SELECTORS[r] + 1] = r

C31_Witness ==
    /\ \A c \in Cores : GDT[c] # <<>>
    /\ SELECTORS["tss_segment"] = 7
    /\ SELECTORS["kernel_code_segment"] = 1

\* C32: once the IDT is built its double fault entry uses the stack of index
\* DOUBLE_FAULT_IST_INDEX, and the slot of that index in the TSS of every
\* registered core holds the double fault stack top the core was set up with,
\* whatever ran since.
C32_DoubleFaultStack ==
    /\ idt_loaded # {} =>
          /\ IDT[8] = "double_fault_handler"
          /\ idt_stack_index(IDT[8]) = DOUBLE_FAULT_IST_INDEX
    /\ \A c \in Cores :
          TSS[c].present =>
              /\ create_frame[c].done
              /\ TSS[c].ist0 = create_frame[c].df

C32_Witness ==
    /\ last.op = "tss_set_rsp0"
    /\ last.ret = "Ok"
    /\ TssCaller(last) = 1
    /\ create_frame[1].df = 2
    /\ TSS[1].ist0 = 2
    /\ TSS[1].rsp0 = 1
    /\ last.arg = 1

\* C33: every delivery of the legacy spurious vector increments SPURIOUS_COUNT
\* by exactly one, with bit 7 of the in-service register set or clear, and
\* nothing else changes the counter; a delivery with the bit clear logs no
\* error and stops no core.
C33_SpuriousCounted ==
    [][/\ last'.op = "spurious_interrupt_handler" =>
            /\ SPURIOUS_COUNT' = SPURIOUS_COUNT + 1
            /\ (\E i \in 1..Len(last'.log) :
                   last'.log[i].ev = "read_isr" /\ ~isr_bit7(last'.log[i].arg)) =>
                  /\ ~Stops(last'.log)
                  /\ ~LogHas(last', "error")
                  /\ halted' = halted
       /\ last'.op # "spurious_interrupt_handler" =>
            SPURIOUS_COUNT' = SPURIOUS_COUNT]_vars

C33_Witness ==
    /\ last.op = "spurious_interrupt_handler"
    /\ last.log = <<Ev("read_isr", 129), Ev("eoi_pic", 39)>>
    /\ SPURIOUS_COUNT = 2

\* C34: the PIT tick handler writes the heartbeat line on exactly the ticks
\* whose count after the increment is a multiple of heartbeat_ticks (1000), on
\* every one of them, whatever the schedule!() of the same tick did.
C34_HeartbeatEveryThousandTicks ==
    [][TICKS' # TICKS =>
         (LogHas(last', "heartbeat") <=> (TICKS' % 1000 = 0))]_vars

Occurrences(q, t) == Cardinality({i \in 1..Len(q) : q[i] = t})

\* C36: schedule() only permutes the RunQueue: whatever the call returns, and
\* when it panics, every task handle has as many entries in the RunQueue after
\* the call as before it, and the length of the RunQueue is the same.
C36_SchedulePermutes ==
    [][last'.op = "schedule" =>
        /\ Len(RUNQUEUE') = Len(RUNQUEUE)
        /\ \A t \in Tasks : Occurrences(RUNQUEUE', t) = Occurrences(RUNQUEUE, t)]_vars

\* schedule() returned true on a queue that holds one handle twice
C36_Witness ==
    /\ last.op = "schedule"
    /\ last.ret = "true"
    /\ Len(RUNQUEUE) = MaxQueue
    /\ Occurrences(RUNQUEUE, last.selected) = 2
    /\ RUNQUEUE[1] # last.selected

\* the place of the first entry of task t in q, 0 when t has no entry
FirstPlace(q, t) ==
    IF \E i \in 1..Len(q) : q[i] = t
    THEN CHOOSE i \in 1..Len(q) : q[i] = t /\ \A j \in 1..(i - 1) : q[j] # t
    ELSE 0

\* C37: bounded waiting. For a task that is in the RunQueue and runnable, every
\* call of schedule() that runs its body either selects the task or moves its
\* first entry one place towards the front, and nothing but schedule(), an add
\* or a remove changes the RunQueue, whatever happens to the runnability of the
\* other tasks: the task at place p is therefore selected by the p-th call at
\* the latest, and p is at most the length of the RunQueue.
C37_BoundedWaiting ==
    [][IF RanSchedule(last')
       THEN \A t \in Tasks :
              (runnable[t] /\ t \in Range(RUNQUEUE)) =>
                  \/ last'.selected = t
                  \/ /\ FirstPlace(RUNQUEUE, t) > 1
                     /\ FirstPlace(RUNQUEUE', t) = FirstPlace(RUNQUEUE, t) - 1
       ELSE last'.op \notin {"add", "remove"} => RUNQUEUE' = RUNQUEUE]_vars

\* task 3 waited behind task 2 in a full queue and is now first in line
C37_Witness ==
    /\ last.op = "schedule"
    /\ last.selected = 2
    /\ RUNQUEUE = <<3, 1, 2>>
    /\ runnable[3]
    /\ ~runnable[1]

\* C38: with several cores in schedule() on the shared RunQueue, no task is
\* executed by two cores at once: the task a core has switched to is not the
\* task another core executes.
C38_NoTaskOnTwoCores ==
    \A c, d \in Cores :
        (c # d /\ running[c] # NoTask) => running[c] # running[d]

====
